---- MODULE Spec2Model ----
(***************************************************************************)
(* Model of the klio logger (logger.go).                                   *)
(*                                                                         *)
(* Byte strings are sequences of chunks: a chunk is a string standing for  *)
(* the bytes it spells ("ESC" stands for the single byte 0x1B).  Logger    *)
(* instances live in a heap (loggers) and are referred to by their index,  *)
(* a *logger pointer.  String slices are a nil flag plus a reference to a  *)
(* backing array in a second heap (arrays), so that two slices sharing a   *)
(* backing array alias each other as they do in Go.                        *)
(***************************************************************************)
EXTENDS Integers, Sequences, FiniteSets

VARIABLES
    loggers,   \* heap of logger structs, indexed by pointer
    arrays,    \* heap of []string backing arrays, indexed by reference
    calls,     \* the Write calls the last operation made on sinks, in order
    last       \* the last operation: its name, receiver, arguments, results

vars == <<loggers, arrays, calls, last>>

---------------------------------------------------------------------------
(* Bounds of the model *)

MaxLoggers == 3
MaxArrays == 1
MaxBufLen == 3
\* bufio.MaxScanTokenSize is 64 * 1024; the model scales it down
MaxScanTokenSize == 2

---------------------------------------------------------------------------
(* Constants of the program *)

FatalLevel == "fatal"
ErrorLevel == "error"
WarnLevel == "warn"
InfoLevel == "info"
VerboseLevel == "verbose"
DebugLevel == "debug"
SpamLevel == "spam"
DefaultLevel == InfoLevel
LineMode == "line"
RawMode == "raw"
DefaultMode == LineMode
\* the zero value of the Mode type
ZeroMode == ""

Stdout == "os.Stdout"
Stderr == "os.Stderr"
Sinks == {Stdout, Stderr}

\* pointers held by the package variables standardLogger and errorLogger
standardLogger == 1
errorLogger == 2

ESC == "ESC"
\* "\033_klio_reset\033\\\n"
ResetSuffix == <<ESC, "_klio_reset", ESC, "\\", "\n">>

---------------------------------------------------------------------------
(* Slices of strings *)

\* tags ...string of a call without arguments
NilSlice == [isNil |-> TRUE, arr |-> 0]
\* []string{}
EmptySlice == [isNil |-> FALSE, arr |-> 0]
SliceOf(a) == [isNil |-> FALSE, arr |-> a]
\* the elements a slice has in the heap arrs
Elems(s, arrs) == IF s.arr = 0 THEN <<>> ELSE arrs[s.arr]

---------------------------------------------------------------------------
(* encoding/json *)

\* json.Marshal of a string value
MarshalString(s) == <<"\"", s, "\"">>

RECURSIVE JoinQuoted(_)
JoinQuoted(ts) ==
    IF ts = <<>> THEN <<>>
    ELSE IF Len(ts) = 1 THEN MarshalString(ts[1])
    ELSE MarshalString(ts[1]) \o <<",">> \o JoinQuoted(Tail(ts))

\* json.Marshal of a []string: a nil slice is null
MarshalTags(s, arrs) ==
    IF s.isNil THEN <<"null">>
    ELSE <<"[">> \o JoinQuoted(Elems(s, arrs)) \o <<"]">>

---------------------------------------------------------------------------
(* type logger and its methods, as functions of the struct value *)

\* updateLinePrefix without its test for null
updateLinePrefix_null(l, arrs) ==
    [l EXCEPT !.linePrefix =
        <<ESC, "_klio_log_level ">> \o MarshalString(l.level) \o <<ESC, "\\">>
        \o <<ESC, "_klio_tags ">> \o MarshalTags(l.tags, arrs) \o <<ESC, "\\">>
        \o <<ESC, "_klio_mode ">> \o MarshalString(l.mode) \o <<ESC, "\\">>]

\* json.Marshal cannot fail on strings or string slices: the err branches
\* are dead, the null branch is not
updateLinePrefix(l, arrs) ==
    LET level == MarshalString(l.level)
        mode == MarshalString(l.mode)
        m == MarshalTags(l.tags, arrs)
        tags == IF m = <<"null">> THEN <<"[", "]">> ELSE m
    IN [l EXCEPT !.linePrefix =
            <<ESC, "_klio_log_level ">> \o level \o <<ESC, "\\">>
            \o <<ESC, "_klio_tags ">> \o tags \o <<ESC, "\\">>
            \o <<ESC, "_klio_mode ">> \o mode \o <<ESC, "\\">>]

newLogger(output, arrs) ==
    updateLinePrefix([output |-> output, tags |-> EmptySlice,
                      level |-> DefaultLevel, linePrefix |-> <<>>,
                      mode |-> DefaultMode, mutable |-> FALSE], arrs)

\* the struct literal of NewMutable sets no mode
newMutableLogger(output, arrs) ==
    updateLinePrefix([output |-> output, tags |-> EmptySlice,
                      level |-> DefaultLevel, linePrefix |-> <<>>,
                      mode |-> ZeroMode, mutable |-> TRUE], arrs)

\* n := *l; n.level = level; n.updateLinePrefix()
withLevel(l, level, arrs) ==
    updateLinePrefix([l EXCEPT !.level = level, !.mutable = FALSE], arrs)

withMode(l, mode, arrs) ==
    updateLinePrefix([l EXCEPT !.mode = mode, !.mutable = FALSE], arrs)

withTags(l, tags, arrs) ==
    updateLinePrefix([l EXCEPT !.tags = tags, !.mutable = FALSE], arrs)

withOutput(l, output) ==
    [l EXCEPT !.output = output, !.mutable = FALSE]

setTags(l, tags, arrs) == updateLinePrefix([l EXCEPT !.tags = tags], arrs)

setLevel(l, level, arrs) == updateLinePrefix([l EXCEPT !.level = level], arrs)

\* SetOutput on a copy of the struct (a value receiver)
setOutput_copy(l, output) == l

setOutput(l, output) == [l EXCEPT !.output = output]

\* SetMode without the call of updateLinePrefix
setMode_stale(l, mode, arrs) == [l EXCEPT !.mode = mode]

setMode(l, mode, arrs) == updateLinePrefix([l EXCEPT !.mode = mode], arrs)

\* the accessors
Level(p) == loggers[p].level
Mode(p) == loggers[p].mode
Output(p) == loggers[p].output
\* r := make([]string, len(l.tags)); copy(r, l.tags)
Tags(p) == Elems(loggers[p].tags, arrays)
StandardLogger == standardLogger
ErrorLogger == errorLogger

---------------------------------------------------------------------------
(* package fmt *)

\* an operand of Print: its text, and whether it is a Go string
Str(t) == [isString |-> TRUE, text |-> t]
Num(t) == [isString |-> FALSE, text |-> t]

\* fmt.Sprint: a space goes between two operands when neither is a string
RECURSIVE Sprint(_)
Sprint(v) ==
    IF v = <<>> THEN <<>>
    ELSE IF Len(v) = 1 THEN v[1].text
    ELSE v[1].text
         \o (IF ~v[1].isString /\ ~v[2].isString THEN <<" ">> ELSE <<>>)
         \o Sprint(Tail(v))

TypeName(a) == IF a.isString THEN "string" ELSE "int"

RECURSIVE Extra(_)
Extra(v) ==
    IF v = <<>> THEN <<>>
    ELSE <<TypeName(v[1]), "=">> \o v[1].text
         \o (IF Len(v) > 1 THEN <<", ">> ELSE <<>>) \o Extra(Tail(v))

\* fmt.Sprintf for formats made of literal chunks and the verb %v
RECURSIVE Sprintf(_, _)
Sprintf(format, v) ==
    IF format = <<>>
    THEN IF v = <<>> THEN <<>> ELSE <<"%!(EXTRA ">> \o Extra(v) \o <<")">>
    ELSE IF format[1] = "%v"
    THEN IF v = <<>>
         THEN <<"%!v(MISSING)">> \o Sprintf(Tail(format), v)
         ELSE v[1].text \o Sprintf(Tail(format), Tail(v))
    ELSE <<format[1]>> \o Sprintf(Tail(format), v)

---------------------------------------------------------------------------
(* package bufio: Scanner with the default split function ScanLines *)

dropCR(data) ==
    IF Len(data) > 0 /\ data[Len(data)] = "\r"
    THEN SubSeq(data, 1, Len(data) - 1)
    ELSE data

Min(a, b) == IF a < b THEN a ELSE b

\* the tokens of scanner.Scan() until it returns false, and whether
\* scanner.Err() is then ErrTooLong.  The scanner's buffer grows up to
\* MaxScanTokenSize bytes; a token together with its newline has to fit.
RECURSIVE scan(_)
scan(data) ==
    IF data = <<>> THEN [tokens |-> <<>>, err |-> FALSE]
    ELSE
      LET window == SubSeq(data, 1, Min(Len(data), MaxScanTokenSize))
          nl == {i \in 1..Len(window) : window[i] = "\n"}
      IN IF nl # {}
         THEN LET i == CHOOSE j \in nl : \A k \in nl : j <= k
                  rest == scan(SubSeq(data, i + 1, Len(data)))
              IN [tokens |-> <<dropCR(SubSeq(data, 1, i - 1))>> \o rest.tokens,
                  err |-> rest.err]
         ELSE IF Len(data) >= MaxScanTokenSize
         THEN [tokens |-> <<>>, err |-> TRUE]
         ELSE [tokens |-> <<dropCR(data)>>, err |-> FALSE]

---------------------------------------------------------------------------
(* Output *)

\* l.output.Write([]byte(line)): the call made on the sink; ok is whether
\* the sink reports success, which Print does not look at
print(l, v, ok) ==
    [sink |-> l.output,
     bytes |-> l.linePrefix \o Sprint(v) \o ResetSuffix,
     ok |-> ok]

\* the loop of Write, were it to skip the empty lines
write_skipEmpty(l, tokens, oks) ==
    LET ts == SelectSeq(tokens, LAMBDA t : t # <<>>)
    IN [i \in 1..Len(ts) |-> print(l, <<Str(ts[i])>>, oks[i])]

\* the calls of the loop of Write, one Print per token
write(l, tokens, oks) ==
    [i \in 1..Len(tokens) |-> print(l, <<Str(tokens[i])>>, oks[i])]

---------------------------------------------------------------------------
(* Inputs *)

Levels == {FatalLevel, ErrorLevel, WarnLevel, InfoLevel, VerboseLevel,
           DebugLevel, SpamLevel}
LevelInputs == {WarnLevel}
ModeInputs == {LineMode, RawMode}
\* the slices a caller builds: s := []string{...}
TagInputs == {<<"b", "a">>}
\* the strings a caller stores into an element of a slice it holds
ElemInputs == {"x"}
PrintInputs == {<<Str(<<"x">>), Str(<<"y">>)>>, <<Num(<<"1">>), Num(<<"2">>)>>}
FormatInputs == {<<"n=", "%v">>}
FormatArgs == {<<Num(<<"1">>)>>}
Bytes == {"a", "\r", "\n"}
Buffers == UNION {[1..n -> Bytes] : n \in 0..MaxBufLen}

Pointers == 1..Len(loggers)
Mutables == {p \in Pointers : loggers[p].mutable}
\* what a caller can pass as tags...: nothing, an empty slice, a slice it holds
SliceArgs == {NilSlice, EmptySlice} \cup {SliceOf(a) : a \in 1..Len(arrays)}

NoLogger ==
    [output |-> "", tags |-> NilSlice, level |-> "", linePrefix |-> <<>>,
     mode |-> "", mutable |-> FALSE]

\* op: the operation; recv: the receiver's pointer; ret: the logger returned,
\* as the struct it points to on return; retp: its pointer when the caller
\* keeps it, else 0; then the arguments and the other results
NoCall ==
    [op |-> "init", recv |-> 0, retp |-> 0, ret |-> NoLogger,
     level |-> "", mode |-> "", output |-> "", tags |-> NilSlice,
     elems |-> <<>>, format |-> <<>>, v |-> <<>>, p |-> <<>>,
     n |-> 0, err |-> FALSE]

---------------------------------------------------------------------------
(* State after package initialisation *)

Init ==
    /\ arrays = <<>>
    /\ loggers = <<newMutableLogger(Stdout, <<>>),
                   setLevel(newMutableLogger(Stderr, <<>>), ErrorLevel, <<>>)>>
    /\ calls = <<>>
    /\ last = NoCall

---------------------------------------------------------------------------
(* The caller's own slices *)

\* s := []string{...}
MakeSlice(elems) ==
    /\ Len(arrays) < MaxArrays
    /\ arrays' = Append(arrays, elems)
    /\ calls' = <<>>
    /\ last' = [NoCall EXCEPT !.op = "MakeSlice",
                              !.tags = SliceOf(Len(arrays) + 1), !.elems = elems]
    /\ UNCHANGED loggers

\* s[i] = t, on a slice the caller holds
SliceWrite(a, i, t) ==
    /\ arrays[a][i] # t
    /\ arrays' = [arrays EXCEPT ![a][i] = t]
    /\ calls' = <<>>
    /\ last' = [NoCall EXCEPT !.op = "SliceWrite", !.tags = SliceOf(a)]
    /\ UNCHANGED loggers

---------------------------------------------------------------------------
(* Constructors and derivations.  Each returns a pointer to a new struct n; *)
(* the caller keeps the pointer (the struct stays in the heap) or drops it  *)
(* (the struct is garbage once the call has returned).                      *)

Return(op, p, n, keep) ==
    /\ keep => Len(loggers) < MaxLoggers
    /\ loggers' = IF keep THEN Append(loggers, n) ELSE loggers
    /\ calls' = <<>>
    /\ UNCHANGED arrays

New(output, keep) ==
    LET n == newLogger(output, arrays)
    IN /\ Return("New", 0, n, keep)
       /\ last' = [NoCall EXCEPT !.op = "New", !.ret = n, !.output = output,
                      !.retp = IF keep THEN Len(loggers) + 1 ELSE 0]

NewMutable(output, keep) ==
    LET n == newMutableLogger(output, arrays)
    IN /\ Return("NewMutable", 0, n, keep)
       /\ last' = [NoCall EXCEPT !.op = "NewMutable", !.ret = n, !.output = output,
                      !.retp = IF keep THEN Len(loggers) + 1 ELSE 0]

\* WithLevel with n := l in place of n := *l: the receiver itself is changed
\* and returned
WithLevel_inplace(p, level, keep) ==
    LET n == updateLinePrefix([loggers[p] EXCEPT !.level = level], arrays)
    IN /\ loggers' = [loggers EXCEPT ![p] = n]
       /\ calls' = <<>>
       /\ UNCHANGED arrays
       /\ last' = [NoCall EXCEPT !.op = "WithLevel", !.recv = p, !.ret = n,
                      !.level = level, !.retp = p]

WithLevel(p, level, keep) ==
    LET n == withLevel(loggers[p], level, arrays)
    IN /\ Return("WithLevel", p, n, keep)
       /\ last' = [NoCall EXCEPT !.op = "WithLevel", !.recv = p, !.ret = n,
                      !.level = level,
                      !.retp = IF keep THEN Len(loggers) + 1 ELSE 0]

WithMode(p, mode, keep) ==
    LET n == withMode(loggers[p], mode, arrays)
    IN /\ Return("WithMode", p, n, keep)
       /\ last' = [NoCall EXCEPT !.op = "WithMode", !.recv = p, !.ret = n,
                      !.mode = mode,
                      !.retp = IF keep THEN Len(loggers) + 1 ELSE 0]

WithTags(p, tags, keep) ==
    LET n == withTags(loggers[p], tags, arrays)
    IN /\ Return("WithTags", p, n, keep)
       /\ last' = [NoCall EXCEPT !.op = "WithTags", !.recv = p, !.ret = n,
                      !.tags = tags,
                      !.retp = IF keep THEN Len(loggers) + 1 ELSE 0]

WithOutput(p, output, keep) ==
    LET n == withOutput(loggers[p], output)
    IN /\ Return("WithOutput", p, n, keep)
       /\ last' = [NoCall EXCEPT !.op = "WithOutput", !.recv = p, !.ret = n,
                      !.output = output,
                      !.retp = IF keep THEN Len(loggers) + 1 ELSE 0]

\* Tags(): the caller receives a fresh slice r and keeps it or not
GetTags(p, keep) ==
    LET r == Tags(p)
        alloc == keep /\ r # <<>>
    IN /\ alloc => Len(arrays) < MaxArrays
       /\ arrays' = IF alloc THEN Append(arrays, r) ELSE arrays
       /\ last' = [NoCall EXCEPT !.op = "Tags", !.recv = p, !.elems = r,
                      !.tags = IF alloc THEN SliceOf(Len(arrays) + 1)
                               ELSE EmptySlice]
       /\ calls' = <<>>
       /\ UNCHANGED loggers

---------------------------------------------------------------------------
(* Setters of type mutableLogger *)

SetTags(p, tags) ==
    /\ loggers' = [loggers EXCEPT ![p] = setTags(@, tags, arrays)]
    /\ calls' = <<>>
    /\ last' = [NoCall EXCEPT !.op = "SetTags", !.recv = p, !.tags = tags]
    /\ UNCHANGED arrays

SetLevel(p, level) ==
    /\ loggers' = [loggers EXCEPT ![p] = setLevel(@, level, arrays)]
    /\ calls' = <<>>
    /\ last' = [NoCall EXCEPT !.op = "SetLevel", !.recv = p, !.level = level]
    /\ UNCHANGED arrays

SetOutput(p, output) ==
    /\ loggers' = [loggers EXCEPT ![p] = setOutput(@, output)]
    /\ calls' = <<>>
    /\ last' = [NoCall EXCEPT !.op = "SetOutput", !.recv = p, !.output = output]
    /\ UNCHANGED arrays

SetMode(p, mode) ==
    /\ loggers' = [loggers EXCEPT ![p] = setMode(@, mode, arrays)]
    /\ calls' = <<>>
    /\ last' = [NoCall EXCEPT !.op = "SetMode", !.recv = p, !.mode = mode]
    /\ UNCHANGED arrays

---------------------------------------------------------------------------
(* Printing.  ok says whether the sink accepts the writes of the call.      *)

\* the method Print of type logger
LoggerPrint(p, v, ok) ==
    /\ calls' = <<print(loggers[p], v, ok)>>
    /\ last' = [NoCall EXCEPT !.op = "Print", !.recv = p, !.retp = p,
                              !.ret = loggers[p], !.v = v]
    /\ UNCHANGED <<loggers, arrays>>

\* return l.Print(fmt.Sprintf(format, v...))
Printf(p, format, v, ok) ==
    /\ calls' = <<print(loggers[p], <<Str(Sprintf(format, v))>>, ok)>>
    /\ last' = [NoCall EXCEPT !.op = "Printf", !.recv = p, !.retp = p,
                              !.ret = loggers[p], !.format = format, !.v = v]
    /\ UNCHANGED <<loggers, arrays>>

\* Write, were it to return the sink's failure
Write_surfacing(p, buf, ok) ==
    LET s == scan(buf)
        err == s.err \/ (~ok /\ s.tokens # <<>>)
    IN /\ calls' = write(loggers[p], s.tokens, [i \in 1..Len(s.tokens) |-> ok])
       /\ last' = [NoCall EXCEPT !.op = "Write", !.recv = p, !.p = buf,
                                 !.n = IF err THEN 0 ELSE Len(buf),
                                 !.err = err]
       /\ UNCHANGED <<loggers, arrays>>

Write(p, buf, ok) ==
    LET s == scan(buf)
    IN /\ calls' = write(loggers[p], s.tokens, [i \in 1..Len(s.tokens) |-> ok])
       /\ last' = [NoCall EXCEPT !.op = "Write", !.recv = p, !.p = buf,
                                 !.n = IF s.err THEN 0 ELSE Len(buf),
                                 !.err = s.err]
       /\ UNCHANGED <<loggers, arrays>>

---------------------------------------------------------------------------
(* The level-named functions of the package: each derives a logger from   *)
(* standardLogger, which nothing retains, and prints through it           *)

Spam(v, ok) ==
    /\ calls' = <<print(withLevel(loggers[standardLogger], SpamLevel, arrays), v, ok)>>
    /\ last' = [NoCall EXCEPT !.op = "Spam", !.v = v]
    /\ UNCHANGED <<loggers, arrays>>

Debug(v, ok) ==
    /\ calls' = <<print(withLevel(loggers[standardLogger], DebugLevel, arrays), v, ok)>>
    /\ last' = [NoCall EXCEPT !.op = "Debug", !.v = v]
    /\ UNCHANGED <<loggers, arrays>>

\* Verbose, were it to derive its logger at the level of Debug
Verbose_debug(v, ok) ==
    /\ calls' = <<print(withLevel(loggers[standardLogger], DebugLevel, arrays), v, ok)>>
    /\ last' = [NoCall EXCEPT !.op = "Verbose", !.v = v]
    /\ UNCHANGED <<loggers, arrays>>

Verbose(v, ok) ==
    /\ calls' = <<print(withLevel(loggers[standardLogger], VerboseLevel, arrays), v, ok)>>
    /\ last' = [NoCall EXCEPT !.op = "Verbose", !.v = v]
    /\ UNCHANGED <<loggers, arrays>>

Info(v, ok) ==
    /\ calls' = <<print(withLevel(loggers[standardLogger], InfoLevel, arrays), v, ok)>>
    /\ last' = [NoCall EXCEPT !.op = "Info", !.v = v]
    /\ UNCHANGED <<loggers, arrays>>

Warn(v, ok) ==
    /\ calls' = <<print(withLevel(loggers[standardLogger], WarnLevel, arrays), v, ok)>>
    /\ last' = [NoCall EXCEPT !.op = "Warn", !.v = v]
    /\ UNCHANGED <<loggers, arrays>>

Error(v, ok) ==
    /\ calls' = <<print(withLevel(loggers[standardLogger], ErrorLevel, arrays), v, ok)>>
    /\ last' = [NoCall EXCEPT !.op = "Error", !.v = v]
    /\ UNCHANGED <<loggers, arrays>>

Fatal(v, ok) ==
    /\ calls' = <<print(withLevel(loggers[standardLogger], FatalLevel, arrays), v, ok)>>
    /\ last' = [NoCall EXCEPT !.op = "Fatal", !.v = v]
    /\ UNCHANGED <<loggers, arrays>>

Spamf(format, v, ok) ==
    /\ calls' = <<print(withLevel(loggers[standardLogger], SpamLevel, arrays),
                        <<Str(Sprintf(format, v))>>, ok)>>
    /\ last' = [NoCall EXCEPT !.op = "Spamf", !.format = format, !.v = v]
    /\ UNCHANGED <<loggers, arrays>>

Debugf(format, v, ok) ==
    /\ calls' = <<print(withLevel(loggers[standardLogger], DebugLevel, arrays),
                        <<Str(Sprintf(format, v))>>, ok)>>
    /\ last' = [NoCall EXCEPT !.op = "Debugf", !.format = format, !.v = v]
    /\ UNCHANGED <<loggers, arrays>>

Verbosef(format, v, ok) ==
    /\ calls' = <<print(withLevel(loggers[standardLogger], VerboseLevel, arrays),
                        <<Str(Sprintf(format, v))>>, ok)>>
    /\ last' = [NoCall EXCEPT !.op = "Verbosef", !.format = format, !.v = v]
    /\ UNCHANGED <<loggers, arrays>>

Infof(format, v, ok) ==
    /\ calls' = <<print(withLevel(loggers[standardLogger], InfoLevel, arrays),
                        <<Str(Sprintf(format, v))>>, ok)>>
    /\ last' = [NoCall EXCEPT !.op = "Infof", !.format = format, !.v = v]
    /\ UNCHANGED <<loggers, arrays>>

Warnf(format, v, ok) ==
    /\ calls' = <<print(withLevel(loggers[standardLogger], WarnLevel, arrays),
                        <<Str(Sprintf(format, v))>>, ok)>>
    /\ last' = [NoCall EXCEPT !.op = "Warnf", !.format = format, !.v = v]
    /\ UNCHANGED <<loggers, arrays>>

Errorf(format, v, ok) ==
    /\ calls' = <<print(withLevel(loggers[standardLogger], ErrorLevel, arrays),
                        <<Str(Sprintf(format, v))>>, ok)>>
    /\ last' = [NoCall EXCEPT !.op = "Errorf", !.format = format, !.v = v]
    /\ UNCHANGED <<loggers, arrays>>

Fatalf(format, v, ok) ==
    /\ calls' = <<print(withLevel(loggers[standardLogger], FatalLevel, arrays),
                        <<Str(Sprintf(format, v))>>, ok)>>
    /\ last' = [NoCall EXCEPT !.op = "Fatalf", !.format = format, !.v = v]
    /\ UNCHANGED <<loggers, arrays>>

---------------------------------------------------------------------------
(* Specifications *)

Construct ==
    \/ \E output \in Sinks, keep \in BOOLEAN : New(output, keep)
    \/ \E output \in Sinks, keep \in BOOLEAN : NewMutable(output, keep)

Derive ==
    \/ \E p \in Pointers, level \in LevelInputs, keep \in BOOLEAN :
          WithLevel(p, level, keep)
    \/ \E p \in Pointers, mode \in ModeInputs, keep \in BOOLEAN :
          WithMode(p, mode, keep)
    \/ \E p \in Pointers, tags \in SliceArgs, keep \in BOOLEAN :
          WithTags(p, tags, keep)
    \/ \E p \in Pointers, output \in Sinks, keep \in BOOLEAN :
          WithOutput(p, output, keep)

Set ==
    \/ \E p \in Mutables, tags \in SliceArgs : SetTags(p, tags)
    \/ \E p \in Mutables, level \in LevelInputs : SetLevel(p, level)
    \/ \E p \in Mutables, output \in Sinks : SetOutput(p, output)
    \/ \E p \in Mutables, mode \in ModeInputs : SetMode(p, mode)

Emit ==
    \/ \E p \in Pointers, v \in PrintInputs, ok \in BOOLEAN : LoggerPrint(p, v, ok)
    \/ \E p \in Pointers, format \in FormatInputs, v \in FormatArgs, ok \in BOOLEAN :
          Printf(p, format, v, ok)
    \/ \E p \in Pointers, buf \in Buffers, ok \in BOOLEAN : Write(p, buf, ok)

Free ==
    \/ \E v \in PrintInputs, ok \in BOOLEAN : Spam(v, ok)
    \/ \E v \in PrintInputs, ok \in BOOLEAN : Debug(v, ok)
    \/ \E v \in PrintInputs, ok \in BOOLEAN : Verbose(v, ok)
    \/ \E v \in PrintInputs, ok \in BOOLEAN : Info(v, ok)
    \/ \E v \in PrintInputs, ok \in BOOLEAN : Warn(v, ok)
    \/ \E v \in PrintInputs, ok \in BOOLEAN : Error(v, ok)
    \/ \E v \in PrintInputs, ok \in BOOLEAN : Fatal(v, ok)
    \/ \E format \in FormatInputs, v \in FormatArgs, ok \in BOOLEAN : Spamf(format, v, ok)
    \/ \E format \in FormatInputs, v \in FormatArgs, ok \in BOOLEAN : Debugf(format, v, ok)
    \/ \E format \in FormatInputs, v \in FormatArgs, ok \in BOOLEAN : Verbosef(format, v, ok)
    \/ \E format \in FormatInputs, v \in FormatArgs, ok \in BOOLEAN : Infof(format, v, ok)
    \/ \E format \in FormatInputs, v \in FormatArgs, ok \in BOOLEAN : Warnf(format, v, ok)
    \/ \E format \in FormatInputs, v \in FormatArgs, ok \in BOOLEAN : Errorf(format, v, ok)
    \/ \E format \in FormatInputs, v \in FormatArgs, ok \in BOOLEAN : Fatalf(format, v, ok)

\* what the caller does with slices of its own
Slices ==
    \/ \E elems \in TagInputs : MakeSlice(elems)
    \/ \E p \in Pointers, keep \in BOOLEAN : GetTags(p, keep)

Alias ==
    \E a \in 1..Len(arrays) : \E i \in 1..Len(arrays[a]), t \in ElemInputs :
        SliceWrite(a, i, t)

\* the whole program with its caller
Next == Construct \/ Derive \/ Set \/ Emit \/ Free \/ Slices \/ Alias
Spec == Init /\ [][Next]_vars

NextDerive == Construct \/ Derive \/ Slices
SpecDerive == Init /\ [][NextDerive]_vars

NextConfig ==
    \/ \E output \in Sinks : New(output, FALSE)
    \/ \E output \in Sinks : NewMutable(output, FALSE)
    \/ \E p \in Pointers, level \in LevelInputs : WithLevel(p, level, FALSE)
    \/ \E p \in Pointers, mode \in ModeInputs : WithMode(p, mode, FALSE)
    \/ \E p \in Pointers, tags \in SliceArgs : WithTags(p, tags, FALSE)
    \/ \E p \in Pointers, output \in Sinks : WithOutput(p, output, FALSE)
    \/ Set
    \/ \E elems \in TagInputs : MakeSlice(elems)
    \/ \E p \in Pointers : GetTags(p, FALSE)
SpecConfig == Init /\ [][NextConfig]_vars

\* the setters of the mutable loggers, and printing through them
NextSet ==
    \/ Set
    \/ \E elems \in TagInputs : MakeSlice(elems)
    \/ \E p \in Pointers, v \in PrintInputs, ok \in BOOLEAN : LoggerPrint(p, v, ok)
SpecSet == Init /\ [][NextSet]_vars

\* the level-named functions, while standardLogger is being reconfigured
NextStd ==
    \/ \E tags \in SliceArgs : SetTags(StandardLogger, tags)
    \/ \E level \in LevelInputs : SetLevel(StandardLogger, level)
    \/ \E output \in Sinks : SetOutput(StandardLogger, output)
    \/ \E mode \in ModeInputs : SetMode(StandardLogger, mode)
    \/ \E elems \in TagInputs : MakeSlice(elems)
    \/ Alias
    \/ Free
SpecStd == Init /\ [][NextStd]_vars

\* printing and raw writes through the loggers a program has
NextOutput ==
    \/ \E p \in Mutables, output \in Sinks : SetOutput(p, output)
    \/ Emit
SpecOutput == Init /\ [][NextOutput]_vars

\* tags passed as a slice the caller goes on writing to
NextAlias ==
    \/ Slices
    \/ Alias
    \/ \E p \in Pointers, tags \in SliceArgs, keep \in BOOLEAN :
          WithTags(p, tags, keep)
    \/ \E p \in Mutables, tags \in SliceArgs : SetTags(p, tags)
    \/ \E p \in Pointers, v \in PrintInputs, ok \in BOOLEAN : LoggerPrint(p, v, ok)
SpecAlias == Init /\ [][NextAlias]_vars

---------------------------------------------------------------------------
(* The wire format of a line, as the format's consumer reads it *)

ST == <<ESC, "\\">>
Quoted(x) == <<"\"", x, "\"">>

RECURSIVE Listed(_)
Listed(ts) ==
    IF ts = <<>> THEN <<>>
    ELSE Quoted(ts[1]) \o (IF Len(ts) > 1 THEN <<",">> ELSE <<>>) \o Listed(Tail(ts))

Header(level, ts, mode) ==
    <<ESC, "_klio_log_level ">> \o Quoted(level) \o ST
    \o <<ESC, "_klio_tags ", "[">> \o Listed(ts) \o <<"]">> \o ST
    \o <<ESC, "_klio_mode ">> \o Quoted(mode) \o ST

Line(header, content) == header \o content \o <<ESC, "_klio_reset">> \o ST \o <<"\n">>

\* the header a struct value ought to carry, its tags read in the current heap
HeaderOf(l) == Header(l.level, Elems(l.tags, arrays), l.mode)

\* the tags segment of a header: what stands between the introducer of the
\* second segment and the terminator before the third
TagsSegment(prefix) == SubSeq(prefix, 10, Len(prefix) - 9)

WithOps == {"WithLevel", "WithMode", "WithTags", "WithOutput"}
SetOps == {"SetLevel", "SetMode", "SetTags", "SetOutput"}
Returning == WithOps \cup {"New", "NewMutable"}

FnLevel ==
    [Spam |-> "spam", Debug |-> "debug", Verbose |-> "verbose", Info |-> "info",
     Warn |-> "warn", Error |-> "error", Fatal |-> "fatal",
     Spamf |-> "spam", Debugf |-> "debug", Verbosef |-> "verbose",
     Infof |-> "info", Warnf |-> "warn", Errorf |-> "error", Fatalf |-> "fatal"]
PlainFns == {"Spam", "Debug", "Verbose", "Info", "Warn", "Error", "Fatal"}
FormatFns == {"Spamf", "Debugf", "Verbosef", "Infof", "Warnf", "Errorf", "Fatalf"}

\* the lines of a buffer, by the positions of its newlines
NewlinesOf(b) == {i \in 1..Len(b) : b[i] = "\n"}
NthNewline(b, k) ==
    CHOOSE i \in NewlinesOf(b) : Cardinality({j \in NewlinesOf(b) : j < i}) = k - 1
LineCount(b) ==
    Cardinality(NewlinesOf(b)) + (IF Len(b) > 0 /\ b[Len(b)] # "\n" THEN 1 ELSE 0)
LineOf(b, k) ==
    SubSeq(b,
           IF k = 1 THEN 1 ELSE NthNewline(b, k - 1) + 1,
           IF k <= Cardinality(NewlinesOf(b)) THEN NthNewline(b, k) - 1 ELSE Len(b))
WithoutCR(x) ==
    IF x # <<>> /\ x[Len(x)] = "\r" THEN SubSeq(x, 1, Len(x) - 1) ELSE x
\* the lines the scanner's buffer cannot hold
TooLong(b) == {k \in 1..LineCount(b) : Len(LineOf(b, k)) >= MaxScanTokenSize}

---------------------------------------------------------------------------
(* Claims *)

\* C1: a call of Print makes exactly one write call on the logger's current
\* sink, of the header of the logger's level, tags and mode (in that order,
\* without separators), then the content, the reset sequence and a newline.
C1_PrintWritesHeaderOfLogger ==
    last.op = "Print" =>
        /\ Len(calls) = 1
        /\ calls[1].sink = Output(last.recv)
        /\ calls[1].bytes =
              Line(Header(Level(last.recv), Tags(last.recv), Mode(last.recv)),
                   Sprint(last.v))

\* C2: after any sequence of New, NewMutable, With* and Set* calls, every
\* logger instance (those in the heap and the one just returned) carries the
\* header that encodes its current level, tags and mode.
C2_HeaderNeverStale ==
    /\ \A p \in Pointers : loggers[p].linePrefix = HeaderOf(loggers[p])
    /\ last.op \in Returning => last.ret.linePrefix = HeaderOf(last.ret)

\* a header derived from a singleton that setters have reconfigured
C2_Witness ==
    /\ last.op = "WithOutput"
    /\ last.recv = StandardLogger
    /\ Level(StandardLogger) = WarnLevel
    /\ Mode(StandardLogger) = RawMode
    /\ Tags(StandardLogger) = <<"b", "a">>
    /\ last.ret.output = Stderr

\* C3: WithLevel, WithMode, WithTags and WithOutput leave their receiver (and
\* every other logger, and every tag array) as it was, and return a distinct
\* instance that equals the receiver in every field but the one replaced and,
\* for level, mode and tags, the recomputed header.
C3_Derived(r, n, call) ==
    /\ n.level = IF call.op = "WithLevel" THEN call.level ELSE r.level
    /\ n.mode = IF call.op = "WithMode" THEN call.mode ELSE r.mode
    /\ n.tags = IF call.op = "WithTags" THEN call.tags ELSE r.tags
    /\ n.output = IF call.op = "WithOutput" THEN call.output ELSE r.output
    /\ n.linePrefix = IF call.op = "WithOutput" THEN r.linePrefix ELSE HeaderOf(n)

C3_WithLeavesReceiver ==
    [][last'.op \in WithOps =>
         /\ loggers'[last'.recv] = loggers[last'.recv]
         /\ SubSeq(loggers', 1, Len(loggers)) = loggers
         /\ arrays' = arrays
         /\ last'.retp # last'.recv
         /\ last'.retp # 0 =>
               /\ last'.retp = Len(loggers) + 1
               /\ loggers'[last'.retp] = last'.ret
         /\ C3_Derived(loggers[last'.recv], last'.ret, last')]_vars

\* a derivation from an immutable logger that New returned
C3_Witness ==
    /\ last.op = "WithTags"
    /\ last.recv \notin {StandardLogger, ErrorLogger}
    /\ ~loggers[last.recv].mutable
    /\ Elems(last.ret.tags, arrays) = <<"b", "a">>
    /\ Tags(last.recv) = <<>>

\* C5: a logger fresh from New or NewMutable has level "info", no tags and
\* mode "line", and its header encodes these; at process start the standard
\* singleton is in that configuration and the error singleton differs from it
\* by its level "error" only.
C5_Default(l, level) ==
    /\ l.level = level
    /\ Elems(l.tags, arrays) = <<>>
    /\ l.mode = "line"
    /\ l.linePrefix = Header(level, <<>>, "line")

C5_Defaults ==
    /\ last.op \in {"New", "NewMutable"} => C5_Default(last.ret, "info")
    /\ last.op = "init" =>
          /\ C5_Default(loggers[StandardLogger], "info")
          /\ C5_Default(loggers[ErrorLogger], "error")
          /\ Output(StandardLogger) = Stdout
          /\ Output(ErrorLogger) = Stderr

\* C9: a logger without tags, however it came to have none, carries [] as the
\* tags segment of its header, never null, and Tags() is empty.
C9_NoTags(l) ==
    Len(Elems(l.tags, arrays)) = 0 => TagsSegment(l.linePrefix) = <<"[", "]">>

C9_EmptyTagsEncodeAsArray ==
    /\ \A p \in Pointers : C9_NoTags(loggers[p]) /\ (loggers[p].tags.arr = 0 => Tags(p) = <<>>)
    /\ last.op \in Returning => C9_NoTags(last.ret)

\* SetTags() without arguments, which stores a nil slice
C9_Witness ==
    /\ last.op = "SetTags"
    /\ last.tags = NilSlice
    /\ loggers[last.recv].tags.isNil
    /\ Len(arrays) = 1

\* C10: a write to an element of a slice the caller holds (one returned by
\* Tags(), or one passed to WithTags or SetTags) changes the result of Tags()
\* of no logger, so that Tags() and the header go on agreeing.
C10_SliceWriteLeavesTags ==
    [][last'.op = "SliceWrite" =>
         \A p \in Pointers :
            /\ Tags(p)' = Tags(p)
            /\ loggers[p].linePrefix = HeaderOf(loggers[p])
                  => loggers'[p].linePrefix = HeaderOf(loggers[p])']_vars

\* C4: a setter changes the mutable logger in place: whoever holds the logger
\* (a singleton: whoever asks StandardLogger() or ErrorLogger() for it) reads
\* the new value from its accessors, and the next Print through it writes to
\* the new sink under the header of the new level, tags and mode.
C4_Set(l, call) ==
    /\ call.op = "SetLevel" => l.level = call.level
    /\ call.op = "SetMode" => l.mode = call.mode
    /\ call.op = "SetTags" => l.tags = call.tags
    /\ call.op = "SetOutput" => l.output = call.output

C4_SettersMutateInPlace ==
    [][/\ last'.op \in SetOps =>
             /\ C4_Set(loggers'[last'.recv], last')
             /\ last'.recv = standardLogger => C4_Set(loggers'[StandardLogger], last')
             /\ last'.recv = errorLogger => C4_Set(loggers'[ErrorLogger], last')
             /\ Len(loggers') = Len(loggers)
       /\ (last.op \in SetOps /\ last'.op = "Print" /\ last'.recv = last.recv) =>
             /\ C4_Set(loggers[last.recv], last)
             /\ Len(calls') = 1
             /\ calls'[1].sink = Output(last.recv)
             /\ calls'[1].bytes = Line(HeaderOf(loggers[last.recv]), Sprint(last'.v))]_vars

\* Print through the standard singleton once its level, mode, tags and output
\* have all been set
C4_Witness ==
    /\ last.op = "Print"
    /\ last.recv = StandardLogger
    /\ Level(StandardLogger) = WarnLevel
    /\ Mode(StandardLogger) = LineMode
    /\ Tags(StandardLogger) = <<"b", "a">>
    /\ Output(StandardLogger) = Stderr
    /\ calls[1].sink = Stderr

\* C6: a level-named function writes exactly one line to the sink the standard
\* singleton has when it is called, under the header of the function's own
\* level and the singleton's tags and mode of that moment, and leaves every
\* logger as it was.
C6_Content(call) ==
    IF call.op \in FormatFns THEN Sprintf(call.format, call.v) ELSE Sprint(call.v)

C6_FreeFunctionsUseStandardLogger ==
    [][last'.op \in PlainFns \cup FormatFns =>
         /\ loggers' = loggers
         /\ arrays' = arrays
         /\ Len(calls') = 1
         /\ calls'[1].sink = Output(StandardLogger)
         /\ calls'[1].bytes =
               Line(Header(FnLevel[last'.op], Tags(StandardLogger), Mode(StandardLogger)),
                    C6_Content(last'))]_vars

\* Warnf on a standard singleton reconfigured by all four setters
C6_Witness ==
    /\ last.op = "Warnf"
    /\ Level(StandardLogger) = WarnLevel
    /\ Mode(StandardLogger) = RawMode
    /\ Tags(StandardLogger) = <<"b", "a">>
    /\ Output(StandardLogger) = Stderr
    /\ calls[1].sink = Stderr

\* C7: when scanning succeeds, Write prints once per line of p, in order, the
\* line's content without its newline (an empty segment gives an empty line,
\* an unterminated non-empty remainder a last line, an empty buffer none), and
\* returns len(p) and no error.
C7_Lines(stripCR) ==
    (last.op = "Write" /\ ~last.err) =>
        /\ last.n = Len(last.p)
        /\ Len(calls) = LineCount(last.p)
        /\ \A k \in 1..Len(calls) :
              /\ calls[k].sink = Output(last.recv)
              /\ calls[k].bytes =
                    Line(loggers[last.recv].linePrefix,
                         IF stripCR THEN WithoutCR(LineOf(last.p, k))
                         ELSE LineOf(last.p, k))

C7_WriteOnePrintPerLine == C7_Lines(FALSE)

\* C7 as amended: the content printed is the line without its newline and
\* without one carriage return at its end, if it has one.
C7_WriteOnePrintPerLineNoCR == C7_Lines(TRUE)

\* a buffer of an empty line that ends in a carriage return, and a remainder
C7_Witness ==
    /\ last.op = "Write"
    /\ last.p = <<"\r", "\n", "a">>
    /\ ~last.err
    /\ Len(calls) = 2

\* C8: a failing sink write is never surfaced and changes no logger: Print and
\* Printf return their receiver and make their one write call whatever the
\* sink answers; Write returns (len(p), nil) when scanning succeeds and
\* (0, error) when it fails, scanning alone deciding which, and by then the
\* lines before the one that failed have been written.
C8_Outcome(call, made) ==
    /\ call.op \in {"Print", "Printf"} =>
          /\ call.retp = call.recv
          /\ Len(made) = 1
    /\ call.op = "Write" =>
          /\ call.err <=> TooLong(call.p) # {}
          /\ call.n = IF call.err THEN 0 ELSE Len(call.p)
          /\ call.err =>
                /\ \A k \in TooLong(call.p) : Len(made) < k
                /\ Len(made) + 1 \in TooLong(call.p)
          /\ \A k \in 1..Len(made) :
                made[k].bytes =
                   Line(loggers[call.recv].linePrefix, WithoutCR(LineOf(call.p, k)))

C8_SinkFailuresSwallowed ==
    [][last'.op \in {"Print", "Printf", "Write"} =>
         /\ loggers' = loggers
         /\ arrays' = arrays
         /\ C8_Outcome(last', calls')]_vars

\* a Write whose scan fails on the second line, the sink having refused the
\* first
C8_Witness ==
    /\ last.op = "Write"
    /\ last.err
    /\ last.n = 0
    /\ Len(calls) = 1
    /\ ~calls[1].ok

====
